---- MODULE Spec2Model ----
(***************************************************************************)
(* Model of the dashboard backend of slasher-tv-ai: the listing, script    *)
(* and video controllers, the MongoDB collections they read and write, the *)
(* video files on disk and the Python processes PipelineService spawns.    *)
(*                                                                         *)
(* Each HTTP handler is one action.  A handler's database writes can throw *)
(* (every handler wraps its body in try/catch): the input failAt names the *)
(* write that throws, 0 meaning none does.  The script handlers that read  *)
(* a document and save it later are also given as two steps (calls), so    *)
(* that requests served in between are covered.                            *)
(***************************************************************************)
EXTENDS Integers, Sequences, FiniteSets, TLC

VARIABLES
    listings,   \* Listing collection: _id -> document
    scripts,    \* Script collection:  _id -> document
    videos,     \* Video collection:   _id -> document
    files,      \* paths of the video files present on disk
    procs,      \* the calls of PipelineService.runPythonScript, in call order
    resp,       \* the HTTP response of the last handled request
    calls,      \* calls that await: a script handler its save(), generateScript its generator
    dealers,    \* Dealer collection: the dealerId of each document
    tempFile    \* temp_listing.json in pipelinePath: the listing whose data it holds

vars == <<listings, scripts, videos, files, procs, resp, calls, dealers, tempFile>>

----------------------------------------------------------------------------
(* Bounds *)

MaxVersions == 3    \* longest script history explored
MaxProcs == 2       \* most processes spawned in one behaviour
MaxPhotos == 2      \* longest photoUrls list explored
MaxCalls == 2       \* most script handlers awaiting save() at once
MaxFileSize == 11   \* largest video file streamed, in bytes

----------------------------------------------------------------------------
(* Values *)

Null == "null"

ListingStatus ==
    <<"pending", "images_downloaded", "images_processed", "script_generated",
      "script_approved", "voiceover_generated", "video_generated",
      "video_approved", "published">>

ScriptStatus == {"draft", "pending_approval", "approved", "rejected"}

VideoStatus == {"processing", "ready", "approved", "rejected", "published"}

JobStatus == {"queued", "processing", "completed", "failed"}

\* The path of the video composed for a listing of a dealer.
VideoFile(dealerId, stockNumber) == "output/" \o dealerId \o "/" \o stockNumber \o ".mp4"

\* Script text is a sequence of characters; " " is the whitespace character.
Space == " "

Text1 == <<"a">>
Text2 == <<"b", Space, "c">>
Text3 == <<Space, "d">>
Empty == <<>>

----------------------------------------------------------------------------
(* Pure helpers of the script controller *)

\* content.split(/\s+/).length: one more than the number of maximal runs of
\* whitespace (a leading or trailing run yields an empty piece).
SplitLength(content) ==
    1 + Cardinality({i \in 1..Len(content) :
                        /\ content[i] = Space
                        /\ (i = 1 \/ content[i - 1] # Space)})

\* Math.ceil(wordCount / 2.5)
EstimatedDuration(wordCount) == (2 * wordCount + 4) \div 5

\* req.body.x || 'admin': undefined and the empty string are falsy.
OrAdmin(x) == IF x = Null \/ x = "" THEN "admin" ELSE x

Version(content, createdBy) == [content |-> content, createdBy |-> createdBy]

----------------------------------------------------------------------------
(* Documents *)

ListingIds == {"L1", "L2"}
ScriptIds == {"SC1", "SC2"}
VideoIds == {"V1", "V2"}

\* The identity of each listing the feed ingests: (dealerId, stockNumber).
DealerOf(id) == IF id = "L1" THEN "D1" ELSE "D2"
StockOf(id) == IF id = "L1" THEN "S1" ELSE "S2"
ScriptIdOf(id) == IF id = "L1" THEN "SC1" ELSE "SC2"
VideoIdOf(id) == IF id = "L1" THEN "V1" ELSE "V2"

Photo == "u1"

\* Slots for the handlers that are between findById() and save().
CallIds == 1..MaxCalls
NoCall == [op |-> "none"]

\* The documents the pipeline has produced for a listing that reached stage k
\* of ListingStatus: a script from script_generated on, a video and its file
\* from video_generated on.
ListingAt(id, k) ==
    [dealerId |-> DealerOf(id), stockNumber |-> StockOf(id),
     status |-> ListingStatus[k], photoUrls |-> <<Photo>>,
     videoPath |-> IF k >= 7 THEN VideoFile(DealerOf(id), StockOf(id)) ELSE Null]

ScriptAt(id, k, st) ==
    [listingId |-> StockOf(id), content |-> Text1,
     wordCount |-> SplitLength(Text1),
     estimatedDuration |-> EstimatedDuration(SplitLength(Text1)),
     status |-> IF k >= 5 THEN "approved" ELSE st,
     approvedBy |-> IF k >= 5 THEN "admin" ELSE Null,
     rejectionReason |-> Null,
     versions |-> <<>>]

VideoAt(id, k) ==
    [listingId |-> StockOf(id), dealerId |-> DealerOf(id),
     path |-> VideoFile(DealerOf(id), StockOf(id)),
     status |-> CASE k = 7 -> "ready" [] k = 8 -> "approved" [] OTHER -> "published",
     approvedBy |-> IF k >= 8 THEN "admin" ELSE Null,
     fastChannelId |-> IF k = 9 THEN "ch1" ELSE Null]

InitDocs(present, stage, draft) ==
    /\ listings = [id \in present |-> ListingAt(id, stage[id])]
    /\ scripts = [sid \in {ScriptIdOf(id) : id \in {x \in present : stage[x] >= 4}} |->
                    LET id == CHOOSE x \in present : ScriptIdOf(x) = sid
                    IN ScriptAt(id, stage[id], IF draft THEN "draft" ELSE "pending_approval")]
    /\ videos = [vid \in {VideoIdOf(id) : id \in {x \in present : stage[x] >= 7}} |->
                    LET id == CHOOSE x \in present : VideoIdOf(x) = vid
                    IN VideoAt(id, stage[id])]
    /\ files = {VideoFile(DealerOf(id), StockOf(id)) : id \in {x \in present : stage[x] >= 7}}
    /\ procs = <<>>
    /\ resp = [op |-> "none", code |-> 0]
    /\ calls = [c \in CallIds |-> NoCall]
    /\ dealers = {DealerOf(id) : id \in present}
    /\ tempFile = Null

\* The dashboard starts on the documents of one listing, at any stage.
Init ==
    \E stage \in [{"L1"} -> 1..Len(ListingStatus)] :
        InitDocs({"L1"}, stage, FALSE)

\* The same, at a stage that has a script, which may still be a draft.
InitScript ==
    \E stage \in [{"L1"} -> 4..Len(ListingStatus)], draft \in BOOLEAN :
        InitDocs({"L1"}, stage, draft)

----------------------------------------------------------------------------
(* Shared steps *)

\* A document with the fields of update overwritten.
Merge(doc, update) ==
    [k \in DOMAIN doc |-> IF k \in DOMAIN update THEN update[k] ELSE doc[k]]

\* A collection without the document id.
Without(coll, id) == [x \in DOMAIN coll \ {id} |-> coll[x]]

Reply(op, code) == resp' = [op |-> op, code |-> code]

\* Listing.findOneAndUpdate({ stockNumber }, update): updates one matching
\* document, none when no listing has that stock number.
ListingFindOneAndUpdate(stockNumber, update) ==
    LET match == {l \in DOMAIN listings : listings[l].stockNumber = stockNumber}
    IN IF match = {}
       THEN listings' = listings
       ELSE \E l \in match : listings' = [listings EXCEPT ![l] = Merge(@, update)]

\* runPythonScript as it was meant: the process is spawned and runs.
SpawnStarts(listingId, dealerId) ==
    procs' = Append(procs, [listingId |-> listingId, dealerId |-> dealerId,
                            status |-> "processing"])

\* PipelineService.runPythonScript.  Its first statement is
\*     const process = spawn(..., { env: { ...process.env } })
\* where process.env reads the constant being declared, not the global: the
\* read throws (ReferenceError; TypeError when const is compiled to var)
\* before spawn is called.  The throw is inside the Promise executor, so no
\* process is started and the promise is rejected: the execution has failed
\* when the call returns.  A caller that does not await the promise leaves
\* the rejection unhandled.
Spawn(listingId, dealerId) ==
    procs' = Append(procs, [listingId |-> listingId, dealerId |-> dealerId,
                            status |-> "failed"])

\* PipelineService.generateVideo(listingId, dealerId)
GenerateVideo(listingId, dealerId) == Spawn(listingId, dealerId)

----------------------------------------------------------------------------
(* listingController *)

\* PUT /listings/:id/photos
UpdatePhotos(id, photoUrls, action, failAt) ==
    /\ UNCHANGED <<scripts, videos, files, procs, calls, dealers, tempFile>>
    /\ IF id \notin DOMAIN listings
       THEN /\ Reply("updatePhotos", 404)
            /\ UNCHANGED listings
       ELSE LET old == listings[id].photoUrls
                new == CASE action = "add" -> old \o photoUrls
                         [] action = "remove" ->
                                SelectSeq(old, LAMBDA u : \A i \in 1..Len(photoUrls) : photoUrls[i] # u)
                         [] action = "replace" -> photoUrls
                         [] OTHER -> old
            IN /\ Len(new) <= MaxPhotos
               /\ IF action \notin {"add", "remove", "replace"} \/ failAt = 1
                  THEN /\ Reply("updatePhotos", 400)
                       /\ UNCHANGED listings
                  ELSE /\ listings' = [listings EXCEPT ![id].photoUrls = new,
                                                       ![id].status = "pending"]
                       /\ Reply("updatePhotos", 200)

\* POST /listings/:id/regenerate-video
RegenerateVideo(id, failAt) ==
    /\ UNCHANGED <<scripts, videos, calls, dealers, tempFile>>
    /\ IF id \notin DOMAIN listings
       THEN /\ Reply("regenerateVideo", 404)
            /\ UNCHANGED <<listings, files, procs>>
       ELSE LET listing == listings[id]
            IN \* Delete existing video
               /\ files' = IF listing.videoPath # Null /\ listing.videoPath \in files
                           THEN files \ {listing.videoPath}
                           ELSE files
               /\ IF failAt = 1
                  THEN \* listing.save() throws
                       /\ Reply("regenerateVideo", 500)
                       /\ UNCHANGED <<listings, procs>>
                  ELSE /\ Len(procs) < MaxProcs
                       /\ listings' = [listings EXCEPT ![id].status = "voiceover_generated",
                                                       ![id].videoPath = Null]
                       /\ GenerateVideo(listing.stockNumber, listing.dealerId)
                       /\ Reply("regenerateVideo", 200)

\* DELETE /listings/:id.  Script.listingId and Video.listingId are unique, so
\* deleteOne({ listingId }) finds at most one document; the video file is
\* left on disk.
ListingDelete(id, failAt) ==
    /\ UNCHANGED <<files, procs, calls, dealers, tempFile>>
    /\ IF failAt = 1
       THEN /\ Reply("listingDelete", 500)
            /\ UNCHANGED <<listings, scripts, videos>>
       ELSE IF id \notin DOMAIN listings
       THEN /\ Reply("listingDelete", 404)
            /\ UNCHANGED <<listings, scripts, videos>>
       ELSE LET stock == listings[id].stockNumber
            IN /\ listings' = Without(listings, id)
               /\ IF failAt = 2
                  THEN /\ Reply("listingDelete", 500)
                       /\ UNCHANGED <<scripts, videos>>
                  ELSE /\ scripts' = [s \in {x \in DOMAIN scripts :
                                                 scripts[x].listingId # stock} |-> scripts[s]]
                       /\ IF failAt = 3
                          THEN /\ Reply("listingDelete", 500)
                               /\ UNCHANGED videos
                          ELSE /\ videos' = [v \in {x \in DOMAIN videos :
                                                        videos[x].listingId # stock} |-> videos[v]]
                               /\ Reply("listingDelete", 200)

----------------------------------------------------------------------------
(* dealerController *)

\* DELETE /dealers/:id
DealerDelete(dealerId, failAt) ==
    /\ UNCHANGED <<scripts, videos, files, procs, calls, tempFile>>
    /\ IF failAt = 1
       THEN /\ Reply("dealerDelete", 500)
            /\ UNCHANGED <<dealers, listings>>
       ELSE IF dealerId \notin dealers
       THEN /\ Reply("dealerDelete", 404)
            /\ UNCHANGED <<dealers, listings>>
       ELSE /\ dealers' = dealers \ {dealerId}
            /\ IF failAt = 2
               THEN /\ Reply("dealerDelete", 500)
                    /\ UNCHANGED listings
               ELSE /\ listings' = [l \in {x \in DOMAIN listings :
                                              listings[x].dealerId # dealerId} |-> listings[l]]
                    /\ Reply("dealerDelete", 200)

----------------------------------------------------------------------------
(* videoController *)

\* POST /videos/:id/approve
VideoApprove(id, approvedBy, failAt) ==
    /\ UNCHANGED <<scripts, files, procs, calls, dealers, tempFile>>
    /\ IF failAt = 1
       THEN /\ Reply("videoApprove", 400)
            /\ UNCHANGED <<videos, listings>>
       ELSE IF id \notin DOMAIN videos
       THEN /\ Reply("videoApprove", 404)
            /\ UNCHANGED <<videos, listings>>
       ELSE /\ videos' = [videos EXCEPT ![id].status = "approved",
                                        ![id].approvedBy = OrAdmin(approvedBy)]
            /\ IF failAt = 2
               THEN /\ Reply("videoApprove", 400)
                    /\ UNCHANGED listings
               ELSE /\ ListingFindOneAndUpdate(videos[id].listingId,
                                               [status |-> "video_approved"])
                    /\ Reply("videoApprove", 200)

\* reject() as it would be if it also sent the listing back for a new video.
VideoRejectResetsListing(id, failAt) ==
    /\ UNCHANGED <<scripts, files, procs, calls, dealers, tempFile>>
    /\ IF failAt = 1
       THEN /\ Reply("videoReject", 400)
            /\ UNCHANGED <<videos, listings>>
       ELSE IF id \notin DOMAIN videos
       THEN /\ Reply("videoReject", 404)
            /\ UNCHANGED <<videos, listings>>
       ELSE /\ videos' = [videos EXCEPT ![id].status = "rejected"]
            /\ ListingFindOneAndUpdate(videos[id].listingId,
                                       [status |-> "voiceover_generated"])
            /\ Reply("videoReject", 200)

\* POST /videos/:id/reject
VideoReject(id, failAt) ==
    /\ UNCHANGED <<listings, scripts, files, procs, calls, dealers, tempFile>>
    /\ IF failAt = 1
       THEN /\ Reply("videoReject", 400)
            /\ UNCHANGED videos
       ELSE IF id \notin DOMAIN videos
       THEN /\ Reply("videoReject", 404)
            /\ UNCHANGED videos
       ELSE /\ videos' = [videos EXCEPT ![id].status = "rejected"]
            /\ Reply("videoReject", 200)

\* POST /videos/:id/publish
VideoPublish(id, channelId, failAt) ==
    /\ UNCHANGED <<scripts, files, procs, calls, dealers, tempFile>>
    /\ IF id \notin DOMAIN videos
       THEN /\ Reply("videoPublish", 404)
            /\ UNCHANGED <<videos, listings>>
       ELSE IF videos[id].status # "approved" \/ failAt = 1
       THEN /\ Reply("videoPublish", 400)
            /\ UNCHANGED <<videos, listings>>
       ELSE /\ videos' = [videos EXCEPT ![id].status = "published",
                                        ![id].fastChannelId = channelId]
            /\ IF failAt = 2
               THEN /\ Reply("videoPublish", 400)
                    /\ UNCHANGED listings
               ELSE /\ ListingFindOneAndUpdate(videos[id].listingId,
                                               [status |-> "published"])
                    /\ Reply("videoPublish", 200)

\* POST /videos/:id/regenerate
VideoRegenerate(id, failAt) ==
    /\ UNCHANGED <<listings, scripts, calls, dealers, tempFile>>
    /\ IF id \notin DOMAIN videos
       THEN /\ Reply("videoRegenerate", 404)
            /\ UNCHANGED <<videos, files, procs>>
       ELSE LET video == videos[id]
            IN \* Delete existing video file
               /\ files' = files \ {video.path}
               /\ IF failAt = 1
                  THEN \* video.save() throws
                       /\ Reply("videoRegenerate", 500)
                       /\ UNCHANGED <<videos, procs>>
                  ELSE /\ Len(procs) < MaxProcs
                       /\ videos' = [videos EXCEPT ![id].status = "processing"]
                       /\ GenerateVideo(video.listingId, video.dealerId)
                       /\ Reply("videoRegenerate", 200)

\* DELETE /videos/:id
VideoDelete(id, failAt) ==
    /\ UNCHANGED <<scripts, procs, calls, dealers, tempFile>>
    /\ IF failAt = 1
       THEN /\ Reply("videoDelete", 500)
            /\ UNCHANGED <<videos, files, listings>>
       ELSE IF id \notin DOMAIN videos
       THEN /\ Reply("videoDelete", 404)
            /\ UNCHANGED <<videos, files, listings>>
       ELSE /\ videos' = Without(videos, id)
            /\ files' = files \ {videos[id].path}
            /\ IF failAt = 2
               THEN /\ Reply("videoDelete", 500)
                    /\ UNCHANGED listings
               ELSE /\ ListingFindOneAndUpdate(videos[id].listingId,
                                               [status |-> "voiceover_generated",
                                                videoPath |-> Null])
                    /\ Reply("videoDelete", 200)

\* The decimal digits, and a number as template literals write it.
Digits == <<"0", "1", "2", "3", "4", "5", "6", "7", "8", "9">>

RECURSIVE Dec(_)
Dec(n) ==
    IF n < 10 THEN <<Digits[n + 1]>> ELSE Dec(n \div 10) \o <<Digits[(n % 10) + 1]>>

IsDigit(ch) == \E d \in 1..10 : Digits[d] = ch
DigitValue(ch) == (CHOOSE d \in 1..10 : Digits[d] = ch) - 1

\* The value parseInt yields on a text that does not start with digits.
\* No text parsed here holds a '-' (it is the separator of split), so parseInt
\* yields no negative number and -1 is free to stand for NaN.
NaN == -1

\* parseInt(text, 10) on texts without white space or sign: the number written
\* by the longest prefix of digits, NaN when the text does not start with one.
ParseInt(text) ==
    LET n == CHOOSE k \in 0..Len(text) :
                 /\ \A i \in 1..k : IsDigit(text[i])
                 /\ k < Len(text) => ~IsDigit(text[k + 1])
        value[i \in 0..n] ==
            IF i = 0 THEN 0 ELSE 10 * value[i - 1] + DigitValue(text[i])
    IN IF n = 0 THEN NaN ELSE value[n]

BytesEq == <<"b", "y", "t", "e", "s", "=">>
Dash == "-"

\* range.replace(/bytes=/, ''): the first occurrence of "bytes=" removed.
ReplaceBytes(range) ==
    LET at == {i \in 1..(Len(range) - 5) : SubSeq(range, i, i + 5) = BytesEq}
    IN IF at = {}
       THEN range
       ELSE LET i == CHOOSE j \in at : \A k \in at : j <= k
            IN SubSeq(range, 1, i - 1) \o SubSeq(range, i + 6, Len(range))

\* text.split('-'): the pieces between the dashes, in order.
RECURSIVE Split(_)
Split(text) ==
    LET at == {i \in 1..Len(text) : text[i] = Dash}
    IN IF at = {}
       THEN <<text>>
       ELSE LET i == CHOOSE j \in at : \A k \in at : j <= k
            IN <<SubSeq(text, 1, i - 1)>> \o Split(SubSeq(text, i + 1, Len(text)))

\* The chunk size as it would be without the + 1.
ChunkSizeExclusive(start, end) == end - start

ChunkSize(start, end) == end - start + 1

\* fs.createReadStream(path, { start, end }) throws unless start and end are
\* integers from 0 on with start <= end.
ReadStreamOptionsValid(start, end) ==
    start # NaN /\ end # NaN /\ start >= 0 /\ end >= 0 /\ start <= end

\* The byte at an offset of the video file.
FileByte(offset) == (7 * offset + 3) % 256

\* What a read stream from start to end (inclusive) delivers of a file of
\* fileSize bytes: it stops at the end of the file.
ReadStream(fileSize, start, end) ==
    LET last == IF end < fileSize - 1 THEN end ELSE fileSize - 1
    IN [k \in 1..(last - start + 1) |-> FileByte(start + k - 1)]

\* GET /videos/:id/stream with Range header range (empty when the request
\* has none) on a video file of fileSize bytes.
VideoStream(id, range, fileSize) ==
    /\ UNCHANGED <<listings, scripts, videos, files, procs, calls, dealers, tempFile>>
    /\ IF id \notin DOMAIN videos
       THEN Reply("videoStream", 404)
       ELSE IF videos[id].path \notin files
       THEN Reply("videoStream", 404)
       ELSE IF range # <<>>
       THEN LET parts == Split(ReplaceBytes(range))
                start == ParseInt(parts[1])
                end == IF Len(parts) >= 2 /\ parts[2] # <<>>
                       THEN ParseInt(parts[2])
                       ELSE fileSize - 1
                chunksize == ChunkSize(start, end)
            IN IF ~ReadStreamOptionsValid(start, end)
               THEN resp' = [op |-> "videoStream", code |-> 500,
                             range |-> range, fileSize |-> fileSize]
               ELSE resp' = [op |-> "videoStream", code |-> 206,
                             range |-> range, fileSize |-> fileSize,
                             start |-> start, end |-> end,
                             contentRange |-> <<"b", "y", "t", "e", "s", " ">> \o Dec(start)
                                              \o <<Dash>> \o Dec(end) \o <<"/">> \o Dec(fileSize),
                             acceptRanges |-> "bytes",
                             contentLength |-> chunksize,
                             contentType |-> "video/mp4",
                             body |-> ReadStream(fileSize, start, end)]
       ELSE resp' = [op |-> "videoStream", code |-> 200,
                     range |-> range, fileSize |-> fileSize,
                     contentLength |-> fileSize,
                     contentType |-> "video/mp4",
                     body |-> ReadStream(fileSize, 0, fileSize - 1)]

----------------------------------------------------------------------------
(* qrController *)

\* PipelineService.generateQRCode(url, outputPath)
GenerateQRCode(listingId, dealerId) == Spawn(listingId, dealerId)

\* POST /qr/:listingId/regenerate.  The handler awaits generateQRCode inside
\* its try block: the rejected promise throws there, the catch answers 500
\* and the lines that set listing.assets.qrCodePath are not reached.
QrRegenerate(id) ==
    /\ UNCHANGED <<listings, scripts, videos, files, calls, dealers, tempFile>>
    /\ IF id \notin DOMAIN listings
       THEN /\ Reply("qrRegenerate", 404)
            /\ UNCHANGED procs
       ELSE /\ Len(procs) < MaxProcs
            /\ GenerateQRCode(listings[id].stockNumber, listings[id].dealerId)
            /\ Reply("qrRegenerate", 500)

----------------------------------------------------------------------------
(* scriptController *)

\* Mongoose validation of a Script on save: content is a required string.
ScriptValid(script) == script.content # Empty

\* update() as it would be without the push of the current content.
UpdatedWithoutPush(script, content, editedBy) ==
    [script EXCEPT
        !.content = content,
        !.wordCount = SplitLength(content),
        !.estimatedDuration = EstimatedDuration(SplitLength(content)),
        !.status = "pending_approval"]

\* The document update() saves: the current content pushed on versions,
\* then content, wordCount, estimatedDuration and status overwritten.
Updated(script, content, editedBy) ==
    [script EXCEPT
        !.versions = Append(@, Version(script.content, OrAdmin(editedBy))),
        !.content = content,
        !.wordCount = SplitLength(content),
        !.estimatedDuration = EstimatedDuration(SplitLength(content)),
        !.status = "pending_approval"]

\* revertVersion() as it would be with the push made after the content is
\* restored, so that the restored content is pushed instead of the current.
RevertedPushLast(script, versionIndex) ==
    LET content == script.versions[versionIndex + 1].content
    IN [script EXCEPT
          !.versions = Append(@, Version(content, "admin (revert)")),
          !.content = content,
          !.wordCount = SplitLength(content),
          !.estimatedDuration = EstimatedDuration(SplitLength(content)),
          !.status = "pending_approval"]

\* The document revertVersion() saves (versionIndex counts from 0): the
\* current content pushed on versions, then the selected version restored.
Reverted(script, versionIndex) ==
    LET pushed == Append(script.versions, Version(script.content, "admin (revert)"))
        content == pushed[versionIndex + 1].content
    IN [script EXCEPT
          !.versions = pushed,
          !.content = content,
          !.wordCount = SplitLength(content),
          !.estimatedDuration = EstimatedDuration(SplitLength(content)),
          !.status = "pending_approval"]

\* PUT /scripts/:id
ScriptUpdate(id, content, editedBy, failAt) ==
    /\ UNCHANGED <<videos, files, procs, calls, dealers, tempFile>>
    /\ IF id \notin DOMAIN scripts
       THEN /\ Reply("scriptUpdate", 404)
            /\ UNCHANGED <<scripts, listings>>
       ELSE LET new == Updated(scripts[id], content, editedBy)
            IN /\ Len(scripts[id].versions) < MaxVersions
               /\ IF ~ScriptValid(new) \/ failAt = 1
                  THEN /\ Reply("scriptUpdate", 400)
                       /\ UNCHANGED <<scripts, listings>>
                  ELSE /\ scripts' = [scripts EXCEPT ![id] = new]
                       /\ IF failAt = 2
                          THEN /\ Reply("scriptUpdate", 400)
                               /\ UNCHANGED listings
                          ELSE /\ ListingFindOneAndUpdate(new.listingId,
                                                          [status |-> "script_generated"])
                               /\ Reply("scriptUpdate", 200)

\* POST /scripts/:id/approve
ScriptApprove(id, approvedBy, failAt) ==
    /\ UNCHANGED <<videos, files, procs, calls, dealers, tempFile>>
    /\ IF failAt = 1
       THEN /\ Reply("scriptApprove", 400)
            /\ UNCHANGED <<scripts, listings>>
       ELSE IF id \notin DOMAIN scripts
       THEN /\ Reply("scriptApprove", 404)
            /\ UNCHANGED <<scripts, listings>>
       ELSE /\ scripts' = [scripts EXCEPT ![id].status = "approved",
                                          ![id].approvedBy = OrAdmin(approvedBy)]
            /\ IF failAt = 2
               THEN /\ Reply("scriptApprove", 400)
                    /\ UNCHANGED listings
               ELSE /\ ListingFindOneAndUpdate(scripts[id].listingId,
                                               [status |-> "script_approved"])
                    /\ Reply("scriptApprove", 200)

\* POST /scripts/:id/reject.  A reason that is undefined is either dropped
\* from the update or stored as null, depending on the Mongoose version.
ScriptReject(id, reason, failAt) ==
    /\ UNCHANGED <<listings, videos, files, procs, calls, dealers, tempFile>>
    /\ IF failAt = 1
       THEN /\ Reply("scriptReject", 400)
            /\ UNCHANGED scripts
       ELSE IF id \notin DOMAIN scripts
       THEN /\ Reply("scriptReject", 404)
            /\ UNCHANGED scripts
       ELSE /\ \E stored \in IF reason = Null
                             THEN {Null, scripts[id].rejectionReason}
                             ELSE {reason} :
                 scripts' = [scripts EXCEPT ![id].status = "rejected",
                                            ![id].rejectionReason = stored]
            /\ Reply("scriptReject", 200)

\* The range check as it would be with > in place of >=.
VersionIndexValidInclusive(script, versionIndex) ==
    ~(versionIndex < 0 \/ versionIndex > Len(script.versions))

\* The range check of revertVersion() on versionIndex.
VersionIndexValid(script, versionIndex) ==
    ~(versionIndex < 0 \/ versionIndex >= Len(script.versions))

\* POST /scripts/:id/revert
ScriptRevert(id, versionIndex, failAt) ==
    /\ UNCHANGED <<listings, videos, files, procs, calls, dealers, tempFile>>
    /\ IF id \notin DOMAIN scripts
       THEN /\ Reply("scriptRevert", 404)
            /\ UNCHANGED scripts
       ELSE IF ~VersionIndexValid(scripts[id], versionIndex)
       THEN /\ Reply("scriptRevert", 400)
            /\ UNCHANGED scripts
       ELSE /\ Len(scripts[id].versions) < MaxVersions
            /\ IF failAt = 1
               THEN /\ Reply("scriptRevert", 400)
                    /\ UNCHANGED scripts
               ELSE /\ scripts' = [scripts EXCEPT ![id] = Reverted(@, versionIndex)]
                    /\ Reply("scriptRevert", 200)

----------------------------------------------------------------------------
(* Specifications *)

\* The handlers update() and revertVersion() await twice: findById(), then
\* save().  Other requests are served between the two, so each handler is
\* also given as two steps, with its local document kept in calls.

\* The stored document after script.save() of a document that was loaded as
\* loaded and changed to doc: Mongoose sends a $set of the paths whose value
\* differs from the loaded one and a $push of the pushed versions.
Saved(stored, loaded, doc) ==
    [k \in DOMAIN stored |->
        IF k = "versions"
        THEN stored.versions \o SubSeq(doc.versions, Len(loaded.versions) + 1,
                                       Len(doc.versions))
        ELSE IF doc[k] # loaded[k] THEN doc[k] ELSE stored[k]]

\* The calls that hold the script id.
CallsOn(id) == {c \in CallIds : calls[c] # NoCall /\ calls[c].id = id}

\* The idle slot a new call takes.
IsFree(c) == calls[c] = NoCall /\ \A d \in 1..(c - 1) : calls[d] # NoCall

\* PUT /scripts/:id up to its await of script.save()
ScriptUpdateFind(c, id, content, editedBy) ==
    /\ IsFree(c)
    /\ UNCHANGED <<listings, scripts, videos, files, procs, dealers, tempFile>>
    /\ IF id \notin DOMAIN scripts
       THEN /\ Reply("scriptUpdate", 404)
            /\ UNCHANGED calls
       ELSE /\ Len(scripts[id].versions) + Cardinality(CallsOn(id)) < MaxVersions
            /\ calls' = [calls EXCEPT ![c] =
                            [op |-> "update", id |-> id, loaded |-> scripts[id],
                             doc |-> Updated(scripts[id], content, editedBy)]]
            /\ UNCHANGED resp

\* PUT /scripts/:id from script.save() on
ScriptUpdateSave(c, failAt) ==
    /\ calls[c] # NoCall
    /\ calls[c].op = "update"
    /\ calls' = [calls EXCEPT ![c] = NoCall]
    /\ UNCHANGED <<videos, files, procs, dealers, tempFile>>
    /\ LET call == calls[c]
       IN IF ~ScriptValid(call.doc) \/ failAt = 1 \/ call.id \notin DOMAIN scripts
          THEN /\ Reply("scriptUpdate", 400)
               /\ UNCHANGED <<scripts, listings>>
          ELSE /\ scripts' = [scripts EXCEPT ![call.id] = Saved(@, call.loaded, call.doc)]
               /\ IF failAt = 2
                  THEN /\ Reply("scriptUpdate", 400)
                       /\ UNCHANGED listings
                  ELSE /\ ListingFindOneAndUpdate(call.doc.listingId,
                                                  [status |-> "script_generated"])
                       /\ Reply("scriptUpdate", 200)

\* POST /scripts/:id/revert up to its await of script.save()
ScriptRevertFind(c, id, versionIndex) ==
    /\ IsFree(c)
    /\ UNCHANGED <<listings, scripts, videos, files, procs, dealers, tempFile>>
    /\ IF id \notin DOMAIN scripts
       THEN /\ Reply("scriptRevert", 404)
            /\ UNCHANGED calls
       ELSE IF ~VersionIndexValid(scripts[id], versionIndex)
       THEN /\ Reply("scriptRevert", 400)
            /\ UNCHANGED calls
       ELSE /\ Len(scripts[id].versions) + Cardinality(CallsOn(id)) < MaxVersions
            /\ calls' = [calls EXCEPT ![c] =
                            [op |-> "revert", id |-> id, loaded |-> scripts[id],
                             doc |-> Reverted(scripts[id], versionIndex)]]
            /\ UNCHANGED resp

\* POST /scripts/:id/revert from script.save() on
ScriptRevertSave(c, failAt) ==
    /\ calls[c] # NoCall
    /\ calls[c].op = "revert"
    /\ calls' = [calls EXCEPT ![c] = NoCall]
    /\ UNCHANGED <<listings, videos, files, procs, dealers, tempFile>>
    /\ LET call == calls[c]
       IN IF failAt = 1 \/ call.id \notin DOMAIN scripts
          THEN /\ Reply("scriptRevert", 400)
               /\ UNCHANGED scripts
          ELSE /\ scripts' = [scripts EXCEPT ![call.id] = Saved(@, call.loaded, call.doc)]
               /\ Reply("scriptRevert", 200)

----------------------------------------------------------------------------
(* Requests *)

Fail2 == {0, 1, 2}
Fail1 == {0, 1}

ListingRequest ==
    \E id \in ListingIds :
        \/ \E action \in {"add", "remove", "replace", "other"}, f \in Fail1 :
               UpdatePhotos(id, <<Photo>>, action, f)
        \/ \E f \in Fail1 : RegenerateVideo(id, f)

VideoRequest ==
    \E id \in VideoIds :
        \/ \E f \in Fail2 : VideoApprove(id, Null, f)
        \/ \E f \in Fail1 : VideoReject(id, f)
        \/ \E f \in Fail2 : VideoPublish(id, "ch1", f)
        \/ \E f \in Fail1 : VideoRegenerate(id, f)
        \/ \E f \in Fail2 : VideoDelete(id, f)

ScriptRequest(contents, reasons) ==
    \E id \in ScriptIds :
        \/ \E c \in contents, f \in Fail2 : ScriptUpdate(id, c, Null, f)
        \/ \E f \in Fail2 : ScriptApprove(id, Null, f)
        \/ \E r \in reasons, f \in Fail1 : ScriptReject(id, r, f)
        \/ \E i \in -1..MaxVersions, f \in Fail1 : ScriptRevert(id, i, f)

QrRequest == \E id \in ListingIds : QrRegenerate(id)

\* The listing, video and QR code endpoints.
Next ==
    \/ ListingRequest
    \/ VideoRequest
    \/ QrRequest

Spec == Init /\ [][Next]_vars

\* The same, with the server serving requests for ever: no background
\* activity exists besides the handlers (no process runs, no timer is set).
SpecLive == Spec /\ WF_vars(Next)

\* The script endpoints.
NextScript == ScriptRequest({Text2, Text3, Empty}, {"bad"})

SpecScript == InitScript /\ [][NextScript]_vars

\* The review gate: approve and reject of scripts and videos, and publish.
\* A reject request may carry a reason, an empty reason or none.
Reasons == {"bad", "", Null}

NextReview ==
    \/ \E id \in ScriptIds :
          \/ \E f \in Fail2 : ScriptApprove(id, Null, f)
          \/ \E r \in Reasons, f \in Fail1 : ScriptReject(id, r, f)
    \/ \E id \in VideoIds :
          \/ \E f \in Fail2 : VideoApprove(id, Null, f)
          \/ \E f \in Fail1 : VideoReject(id, f)
          \/ \E f \in Fail2 : VideoPublish(id, "ch1", f)

SpecReview == InitScript /\ [][NextReview]_vars

\* The Range headers tried: bytes=a-b, bytes=a-, bytes=-b and a-b for a and b
\* near 0 and near the largest file size, and no header.
RangeHeaders ==
    LET N == {0, 1, 2, MaxFileSize - 1, MaxFileSize, MaxFileSize + 1}
    IN {BytesEq \o Dec(a) \o <<Dash>> \o Dec(b) : a \in N, b \in N}
       \cup {BytesEq \o Dec(a) \o <<Dash>> : a \in N}
       \cup {BytesEq \o <<Dash>> \o Dec(b) : b \in N}
       \cup {Dec(a) \o <<Dash>> \o Dec(b) : a \in {0, 1}, b \in {1, 2}}
       \cup {BytesEq, <<>>}

\* The sizes of the video file tried, in bytes.
FileSizes == {0, 1, 2, 3, MaxFileSize - 1, MaxFileSize}

\* The stream endpoint, on a video whose file may have been removed by a
\* regeneration.
NextStream ==
    \E id \in VideoIds :
        \/ \E range \in RangeHeaders, fileSize \in FileSizes :
               VideoStream(id, range, fileSize)
        \/ \E f \in Fail1 : VideoRegenerate(id, f)

\* The documents of one listing that has a video.
InitStream ==
    \E stage \in [{"L1"} -> 7..Len(ListingStatus)] :
        InitDocs({"L1"}, stage, FALSE)

SpecStream == InitStream /\ [][NextStream]_vars

\* Script requests served concurrently: an update or a revert that has read
\* its document is overtaken by other requests before it saves.
NextRace ==
    \E id \in {"SC1"}, c \in CallIds :
          \/ \E content \in {Text1, Text2, Text3} : ScriptUpdateFind(c, id, content, Null)
          \/ \E f \in Fail2 : ScriptUpdateSave(c, f)
          \/ \E i \in 0..1 : ScriptRevertFind(c, id, i)
          \/ \E f \in Fail1 : ScriptRevertSave(c, f)
          \/ \E f \in Fail2 : ScriptApprove(id, Null, f)
          \/ \E f \in Fail1 : ScriptReject(id, "bad", f)

SpecRace == InitScript /\ [][NextRace]_vars

Fail3 == {0, 1, 2, 3}

\* Two dealers that each have a listing with stock number S1, which the
\* unique index on (dealerId, stockNumber) allows.  Script and Video are
\* unique by listingId (the stock number): there is one script, and one
\* video, made for the listing of one of the dealers (owner) and named
\* after it (ScriptIdOf, VideoIdOf).
SharedStock == "S1"

DupListingAt(id, k) ==
    [ListingAt(id, k) EXCEPT
        !.stockNumber = SharedStock,
        !.videoPath = IF k >= 7 THEN VideoFile(DealerOf(id), SharedStock) ELSE Null]

InitDup ==
    \E stage \in [ListingIds -> {4, 7}], owner \in ListingIds :
        /\ listings = [id \in ListingIds |-> DupListingAt(id, stage[id])]
        /\ scripts = [sid \in {ScriptIdOf(owner)} |->
                        [ScriptAt(owner, stage[owner], "pending_approval")
                            EXCEPT !.listingId = SharedStock]]
        /\ videos = [vid \in IF stage[owner] >= 7 THEN {VideoIdOf(owner)} ELSE {} |->
                        [VideoAt(owner, stage[owner]) EXCEPT
                            !.listingId = SharedStock,
                            !.path = VideoFile(DealerOf(owner), SharedStock)]]
        /\ files = {VideoFile(DealerOf(id), SharedStock) :
                        id \in {x \in ListingIds : stage[x] >= 7}}
        /\ procs = <<>>
        /\ resp = [op |-> "none", code |-> 0]
        /\ calls = [c \in CallIds |-> NoCall]
        /\ dealers = {DealerOf(id) : id \in ListingIds}
        /\ tempFile = Null

\* The review requests on scripts and videos.
NextDup ==
    \/ \E id \in ScriptIds :
          \/ \E f \in Fail2 : ScriptUpdate(id, Text2, Null, f)
          \/ \E f \in Fail2 : ScriptApprove(id, Null, f)
          \/ \E f \in Fail1 : ScriptReject(id, "bad", f)
    \/ \E id \in VideoIds :
          \/ \E f \in Fail2 : VideoApprove(id, Null, f)
          \/ \E f \in Fail1 : VideoReject(id, f)
          \/ \E f \in Fail2 : VideoPublish(id, "ch1", f)
          \/ \E f \in Fail2 : VideoDelete(id, f)

SpecDup == InitDup /\ [][NextDup]_vars

\* The deletions of listings, dealers and videos, from the same documents.
NextDelete ==
    \/ \E id \in ListingIds, f \in Fail3 : ListingDelete(id, f)
    \/ \E d \in {DealerOf(id) : id \in ListingIds}, f \in Fail2 : DealerDelete(d, f)
    \/ \E id \in VideoIds, f \in Fail2 : VideoDelete(id, f)

SpecDelete == InitDup /\ [][NextDelete]_vars

----------------------------------------------------------------------------
(* Jobs: one stage execution attempt is one call of runPythonScript *)

StatusIndex(st) == CHOOSE k \in 1..Len(ListingStatus) : ListingStatus[k] = st

\* The executions for a listing (by stock number) that are queued or processing.
ActiveJobs(stockNumber) ==
    {i \in 1..Len(procs) : /\ procs[i].listingId = stockNumber
                           /\ procs[i].status \in {"queued", "processing"}}

\* This step calls the stage executor for the listing.
Called(stockNumber) ==
    /\ Len(procs') = Len(procs) + 1
    /\ procs'[Len(procs')].listingId = stockNumber

\* This step starts an execution for the listing: after it the execution
\* is queued or processing.
Dispatched(stockNumber) ==
    /\ Called(stockNumber)
    /\ procs'[Len(procs')].status \in {"queued", "processing"}

----------------------------------------------------------------------------
(* Claims about jobs, regeneration and the listing state machine (Spec) *)

C2_RacingDispatchConflicts ==
    [][\A id \in ListingIds :
          (id \in DOMAIN listings /\ RegenerateVideo(id, 0))
          => IF ActiveJobs(listings[id].stockNumber) # {}
             THEN resp'.code = 409 /\ procs' = procs
             ELSE resp'.code = 200 => Dispatched(listings[id].stockNumber)]_vars

C3_RegenerateIdempotent ==
    [][\A id \in DOMAIN listings :
          ActiveJobs(listings[id].stockNumber) # {}
          => ~Dispatched(listings[id].stockNumber)]_vars

\* C4: a regeneration request removes the old video file only when the new
\* job has been dispatched: a regenerate step that deletes a file also
\* starts the new execution.
C4_DeleteOnlyAfterDispatch ==
    [][(/\ resp'.op \in {"regenerateVideo", "videoRegenerate"}
        /\ files' # files)
       => \E l \in DOMAIN listings : Dispatched(listings[l].stockNumber)]_vars

\* No artifact of the listing produced at or after its current stage is
\* approved or published.
NoStaleApproved(l) ==
    LET k == StatusIndex(listings[l].status)
        stock == listings[l].stockNumber
    IN /\ k < StatusIndex("script_approved") =>
            \A s \in DOMAIN scripts :
                scripts[s].listingId = stock => scripts[s].status # "approved"
       /\ k < StatusIndex("video_approved") =>
            \A v \in DOMAIN videos :
                videos[v].listingId = stock =>
                    videos[v].status \notin {"approved", "published"}

\* C5: whenever a step resets a listing to an earlier pipeline status, no
\* script or video of the listing from the re-run stage on is left approved
\* or published.
C5_NoStaleApprovedAfterReset ==
    [][\A l \in DOMAIN listings :
          (/\ l \in DOMAIN listings'
           /\ StatusIndex(listings'[l].status) < StatusIndex(listings[l].status))
          => NoStaleApproved(l)']_vars

\* C6: published is terminal: an approve, reject or publish request leaves a
\* published video published.
C6_PublishedIsTerminal ==
    [][\A v \in DOMAIN videos :
          (/\ videos[v].status = "published"
           /\ resp'.op \in {"videoApprove", "videoReject", "videoPublish"})
          => (v \in DOMAIN videos' /\ videos'[v].status = "published")]_vars

\* C7: a listing's status advances only one stage at a time, from the
\* predecessor status to the next status of the pipeline order.
C7_NoStageSkipped ==
    [][\A l \in DOMAIN listings :
          (/\ l \in DOMAIN listings'
           /\ StatusIndex(listings'[l].status) > StatusIndex(listings[l].status))
          => StatusIndex(listings'[l].status) = StatusIndex(listings[l].status) + 1]_vars

\* C8: a listing whose status is video_generated, video_approved or
\* published has its video asset set and the video file exists.
C8_StatusConsistentWithVideo ==
    \A l \in DOMAIN listings :
        listings[l].status \in {"video_generated", "video_approved", "published"}
        => (listings[l].videoPath # Null /\ listings[l].videoPath \in files)

----------------------------------------------------------------------------
(* Claims about the script history (SpecScript) *)

\* C9: versions is append-only and lossless: a step never removes, reorders
\* or alters an entry, and a step that changes content or versions appends
\* exactly one entry, holding the content it overwrites.
C9_HistoryAppendOnly ==
    [][\A s \in DOMAIN scripts :
          s \in DOMAIN scripts' =>
            LET old == scripts[s]
                new == scripts'[s]
                n == Len(old.versions)
            IN /\ Len(new.versions) >= n
               /\ SubSeq(new.versions, 1, n) = old.versions
               /\ (new.content # old.content \/ new.versions # old.versions)
                    => /\ Len(new.versions) = n + 1
                       /\ new.versions[n + 1].content = old.content]_vars

\* A revert has been applied to a script with history: two or more entries.
C9_Witness ==
    \E s \in DOMAIN scripts :
        /\ Len(scripts[s].versions) >= 2
        /\ scripts[s].content # scripts[s].versions[Len(scripts[s].versions)].content
        /\ resp = [op |-> "scriptRevert", code |-> 200]

\* C10: round trip. For every reachable script, with content c and n
\* versions, and every new content c2 that update() accepts, the update to
\* c2 followed by the revert to index n is accepted, restores content c and
\* leaves the n old entries followed by exactly two new ones, c then c2.
C10_RoundTrip ==
    \A s \in DOMAIN scripts : \A c2 \in {Text1, Text2, Text3} :
        LET doc == scripts[s]
            n == Len(doc.versions)
            u == Updated(doc, c2, Null)
            r == Reverted(u, n)
        IN /\ ScriptValid(u)
           /\ VersionIndexValid(u, n)
           /\ r.content = doc.content
           /\ Len(r.versions) = n + 2
           /\ SubSeq(r.versions, 1, n) = doc.versions
           /\ r.versions[n + 1].content = doc.content
           /\ r.versions[n + 2].content = c2

\* A round trip has happened: the last request was an accepted revert, the
\* last two entries are the restored content, pushed by an update, and a
\* different content, pushed by the revert.
C10_Witness ==
    \E s \in DOMAIN scripts :
        LET doc == scripts[s]
            m == Len(doc.versions)
        IN /\ m >= 3
           /\ doc.versions[m - 1] = Version(doc.content, "admin")
           /\ doc.versions[m].createdBy = "admin (revert)"
           /\ doc.versions[m].content # doc.content
           /\ resp = [op |-> "scriptRevert", code |-> 200]


----------------------------------------------------------------------------
(* Claims about the review gate *)

\* C11: a revert request whose index i is outside 0 <= i < Len(versions) is
\* answered with an error and leaves every script document as it was
\* (content, versions, wordCount, estimatedDuration and status).
C11_OutOfRangeRevertRejected ==
    [][\A id \in ScriptIds, i \in -1..(MaxVersions + 1), f \in Fail1 :
          (/\ id \in DOMAIN scripts
           /\ ~(0 <= i /\ i < Len(scripts[id].versions))
           /\ ScriptRevert(id, i, f))
          => (resp'.code = 400 /\ scripts' = scripts /\ listings' = listings)]_vars

\* A revert was refused on a script that has a history.
C11_Witness ==
    \E s \in DOMAIN scripts :
        /\ Len(scripts[s].versions) >= 1
        /\ Len(scripts[s].versions) < MaxVersions
        /\ resp = [op |-> "scriptRevert", code |-> 400]

\* C12: approving a script whose status is not pending_approval fails and
\* leaves the script and the parent listing unchanged.
C12_ApproveNeedsPendingApproval ==
    [][\A id \in ScriptIds, f \in Fail2 :
          (/\ id \in DOMAIN scripts
           /\ scripts[id].status # "pending_approval"
           /\ ScriptApprove(id, Null, f))
          => (resp'.code # 200 /\ scripts' = scripts /\ listings' = listings)]_vars


\* C13: approve and reject of a video succeed only when its status is
\* ready; in any other status they fail and leave the video and its listing
\* unchanged.
C13_VideoReviewNeedsReady ==
    [][\A id \in VideoIds :
          (/\ id \in DOMAIN videos
           /\ videos[id].status # "ready"
           /\ \/ \E f \in Fail2 : VideoApprove(id, Null, f)
              \/ \E f \in Fail1 : VideoReject(id, f))
          => (resp'.code # 200 /\ videos' = videos /\ listings' = listings)]_vars

\* The listings that own a video: same dealer and stock number.
VideoOwners(video) ==
    {l \in DOMAIN listings : /\ listings[l].stockNumber = video.listingId
                             /\ listings[l].dealerId = video.dealerId}

\* The listings a script can belong to: those with its stock number.
ScriptOwners(script) ==
    {l \in DOMAIN listings : listings[l].stockNumber = script.listingId}

\* C14: a successful approve sets the artifact to approved and advances the
\* parent listing: to script_approved for a script (some listing with the
\* script's stock number), to video_approved for a video (the listing of
\* the video's dealer and stock number).
C14_ApproveAdvancesListing ==
    [][/\ \A id \in ScriptIds :
            (/\ id \in DOMAIN scripts
             /\ ScriptOwners(scripts[id]) # {}
             /\ \E f \in Fail2 : ScriptApprove(id, Null, f)
             /\ resp'.code = 200)
            => /\ scripts'[id].status = "approved"
               /\ \E l \in ScriptOwners(scripts[id]) :
                      listings'[l].status = "script_approved"
       /\ \A id \in VideoIds :
            (/\ id \in DOMAIN videos
             /\ \E f \in Fail2 : VideoApprove(id, Null, f)
             /\ resp'.code = 200)
            => /\ videos'[id].status = "approved"
               /\ \A l \in VideoOwners(videos[id]) :
                      listings'[l].status = "video_approved"]_vars


\* C15: reject changes only the artifact's status (to rejected) and, for a
\* script, its rejection reason: listings, files and the other collection
\* are left unchanged, as are a script's content and versions.
C15_RejectChangesOnlyArtifact ==
    [][/\ \A id \in ScriptIds, r \in Reasons, f \in Fail1 :
            (id \in DOMAIN scripts /\ ScriptReject(id, r, f))
            => /\ listings' = listings /\ videos' = videos /\ files' = files
               /\ DOMAIN scripts' = DOMAIN scripts
               /\ \A s \in DOMAIN scripts \ {id} : scripts'[s] = scripts[s]
               /\ [scripts'[id] EXCEPT !.status = scripts[id].status,
                                       !.rejectionReason = scripts[id].rejectionReason]
                    = scripts[id]
               /\ scripts'[id].status \in {"rejected", scripts[id].status}
               /\ resp'.code = 200 => scripts'[id].status = "rejected"
       /\ \A id \in VideoIds, f \in Fail1 :
            (id \in DOMAIN videos /\ VideoReject(id, f))
            => /\ listings' = listings /\ scripts' = scripts /\ files' = files
               /\ DOMAIN videos' = DOMAIN videos
               /\ \A v \in DOMAIN videos \ {id} : videos'[v] = videos[v]
               /\ [videos'[id] EXCEPT !.status = videos[id].status] = videos[id]
               /\ videos'[id].status \in {"rejected", videos[id].status}
               /\ resp'.code = 200 => videos'[id].status = "rejected"]_vars

\* A video of a listing at video_approved has been rejected, and so has the
\* script, with its reason stored: the listing is still at video_approved.
C15_Witness ==
    /\ \E v \in DOMAIN videos : videos[v].status = "rejected"
    /\ \E s \in DOMAIN scripts :
          scripts[s].status = "rejected" /\ scripts[s].rejectionReason = "bad"
    /\ \E l \in DOMAIN listings : listings[l].status = "video_approved"
    /\ resp.op \in {"videoReject", "scriptReject"} /\ resp.code = 200

\* C16: a reject request with an empty or missing reason is a validation
\* error: the script is not set to rejected and no reason is stored.
C16_RejectNeedsReason ==
    [][\A id \in ScriptIds, f \in Fail1 :
          (/\ id \in DOMAIN scripts
           /\ ScriptReject(id, "", f) \/ ScriptReject(id, Null, f))
          => (resp'.code = 400 /\ scripts' = scripts)]_vars


\* C17: every successful update or revert leaves the script at
\* pending_approval, and no step changes the content of a script without
\* leaving it at pending_approval (so that an approved script has the
\* content that was approved).
C17_EditResetsStatus ==
    [][/\ \A c \in CallIds, f \in Fail2 :
            ((ScriptUpdateSave(c, f) \/ ScriptRevertSave(c, f)) /\ resp'.code = 200)
            => scripts'[calls[c].id].status = "pending_approval"
       /\ \A id \in DOMAIN scripts :
            (id \in DOMAIN scripts' /\ scripts'[id].content # scripts[id].content)
            => scripts'[id].status = "pending_approval"]_vars


\* The number of words of a text: its maximal runs of characters that are
\* not white space.
WordCount(content) ==
    Cardinality({i \in 1..Len(content) :
                    content[i] # Space /\ (i = 1 \/ content[i - 1] = Space)})

\* C18: after a successful update or revert, wordCount is the number of
\* words of the new content and estimatedDuration is the least d with
\* 5 * d >= 2 * wordCount.
C18_DerivedFieldsRecomputed ==
    [][\A id \in DOMAIN scripts :
          (/\ id \in DOMAIN scripts'
           /\ scripts'[id] # scripts[id]
           /\ resp'.op \in {"scriptUpdate", "scriptRevert"})
          => LET s == scripts'[id]
             IN /\ s.wordCount = WordCount(s.content)
                /\ 5 * s.estimatedDuration >= 2 * s.wordCount
                /\ 5 * (s.estimatedDuration - 1) < 2 * s.wordCount]_vars


\* C19: when a stage executor fails, the listing it was called for moves to
\* error, and no artifact reference is written or modified.
C19_FailureMovesListingToError ==
    [][\A l \in DOMAIN listings :
          (/\ Called(listings[l].stockNumber)
           /\ procs'[Len(procs')].dealerId = listings[l].dealerId
           /\ procs'[Len(procs')].status = "failed")
          => /\ listings'[l].status = "error"
             /\ listings'[l].videoPath = listings[l].videoPath
             /\ videos' = videos]_vars


\* C20: a video that is processing does not stay processing forever.
C20_ProcessingVideoEnds ==
    \A v \in VideoIds :
        [](v \in DOMAIN videos /\ videos[v].status = "processing"
           => <>(v \notin DOMAIN videos \/ videos[v].status # "processing"))


\* C21: the write on the artifact and the advance of the listing status
\* commit together or not at all: a publish step sets the video to published
\* exactly when it sets the listing of the video to published.
C21_ArtifactAndStatusCommitTogether ==
    [][\A id \in VideoIds, f \in Fail2 :
          (id \in DOMAIN videos /\ VideoPublish(id, "ch1", f))
          => LET owners == {l \in DOMAIN listings :
                               listings[l].stockNumber = videos[id].listingId}
             IN /\ (videos[id].status # "published" /\ videos'[id].status = "published")
                   => \A l \in owners : listings'[l].status = "published"
                /\ listings' # listings => videos'[id].status = "published"]_vars


\* C22: a request with Range: bytes=start-end, 0 <= start <= end < fileSize,
\* on a video whose file exists is answered 206 with Content-Range
\* 'bytes start-end/fileSize', Accept-Ranges bytes, Content-Length
\* end - start + 1, Content-Type video/mp4 and the bytes start..end.
C22_RangeAnswered ==
    \A start \in 0..MaxFileSize, end \in 0..MaxFileSize :
        (/\ resp.op = "videoStream"
         /\ resp.code # 404
         /\ resp.range = BytesEq \o Dec(start) \o <<"-">> \o Dec(end)
         /\ start <= end /\ end < resp.fileSize)
        => /\ resp.code = 206
           /\ resp.contentRange = <<"b", "y", "t", "e", "s", " ">> \o Dec(start)
                                  \o <<"-">> \o Dec(end) \o <<"/">> \o Dec(resp.fileSize)
           /\ resp.acceptRanges = "bytes"
           /\ resp.contentLength = end - start + 1
           /\ resp.contentType = "video/mp4"
           /\ resp.body = [k \in 1..(end - start + 1) |-> FileByte(start + k - 1)]

\* Bytes 2..10 of an 11 byte file have been served.
C22_Witness ==
    /\ resp.op = "videoStream" /\ resp.code = 206
    /\ resp.range = <<"b", "y", "t", "e", "s", "=", "2", "-", "1", "0">>
    /\ resp.fileSize = 11
    /\ Len(resp.body) = 9


\* C30: every 206 answer of the stream endpoint describes a span of bytes
\* inside the file: 0 <= start <= end <= fileSize - 1 and
\* 1 <= Content-Length <= fileSize.
C30_SpanInsideFile ==
    (resp.op = "videoStream" /\ resp.code = 206)
    => /\ 0 <= resp.start /\ resp.start <= resp.end /\ resp.end <= resp.fileSize - 1
       /\ 1 <= resp.contentLength /\ resp.contentLength <= resp.fileSize


\* C23: a script is removed only as part of removing the listing it belongs
\* to: after a step that removes a script, no listing with the script's
\* stock number is left.
C23_ScriptDeletedOnlyWithListing ==
    [][\A s \in DOMAIN scripts :
          s \notin DOMAIN scripts'
          => \A l \in DOMAIN listings' :
                 listings'[l].stockNumber # scripts[s].listingId]_vars


\* C24: publish succeeds only on an approved video and then sets the video
\* and its listing to published; on a video in any other status it answers
\* with an error and changes neither the video nor the listing.  No step sets
\* a video to published that is not approved.
C24_PublishOnlyApproved ==
    [][/\ \A id \in VideoIds, f \in Fail2 :
            (id \in DOMAIN videos /\ VideoPublish(id, "ch1", f))
            => IF videos[id].status = "approved"
               THEN resp'.code = 200
                    => /\ videos'[id].status = "published"
                       /\ \A l \in VideoOwners(videos[id]) :
                              listings'[l].status = "published"
               ELSE /\ resp'.code = 400
                    /\ videos' = videos /\ listings' = listings
       /\ \A id \in DOMAIN videos :
            (/\ id \in DOMAIN videos'
             /\ videos'[id].status = "published"
             /\ videos[id].status # "published")
            => videos[id].status = "approved"]_vars


\* C26: a review operation on a script or a video changes only the listing
\* the artifact was made for: the other dealer's listing is left unchanged.
C26_OnlyOwnListingChanges ==
    [][/\ \A id \in VideoIds :
            (/\ id \in DOMAIN videos
             /\ \/ \E f \in Fail2 : VideoApprove(id, Null, f)
                \/ \E f \in Fail2 : VideoPublish(id, "ch1", f)
                \/ \E f \in Fail2 : VideoDelete(id, f))
            => \A l \in DOMAIN listings :
                   VideoIdOf(l) # id => listings'[l] = listings[l]
       /\ \A id \in ScriptIds :
            (/\ id \in DOMAIN scripts
             /\ \/ \E f \in Fail2 : ScriptUpdate(id, Text2, Null, f)
                \/ \E f \in Fail2 : ScriptApprove(id, Null, f))
            => \A l \in DOMAIN listings :
                   ScriptIdOf(l) # id => listings'[l] = listings[l]]_vars


\* C27: a listing at script_approved has a script that is approved, in
\* every reachable state.
C27_ApprovedListingHasApprovedScript ==
    \A l \in DOMAIN listings :
        listings[l].status = "script_approved"
        => \E s \in DOMAIN scripts :
               /\ scripts[s].listingId = listings[l].stockNumber
               /\ scripts[s].status = "approved"

\* C28: an update loses no content from the history: when a save of an
\* update replaces the live content, the content it replaces is an entry of
\* versions afterwards.
C28_NoContentLost ==
    [][\A c \in CallIds, f \in Fail2 :
          ScriptUpdateSave(c, f)
          => \A id \in DOMAIN scripts :
                 scripts'[id].content # scripts[id].content
                 => \E i \in 1..Len(scripts'[id].versions) :
                        scripts'[id].versions[i].content = scripts[id].content]_vars


(* PipelineService.generateScript *)

\* generateScript(listingData) up to its await: writeFileSync puts the data
\* of the listing in temp_listing.json, the one path every call uses, and
\* runPythonScript is called with the generator that is to read that path.
GenerateScriptWrite(c, id) ==
    /\ IsFree(c)
    /\ Len(procs) < MaxProcs
    /\ tempFile' = id
    /\ Spawn(StockOf(id), DealerOf(id))
    /\ calls' = [calls EXCEPT ![c] = [op |-> "generateScript", id |-> id]]
    /\ UNCHANGED <<listings, scripts, videos, files, resp, dealers>>

\* generateScript after its await: the finally block removes
\* temp_listing.json if it exists, whatever call wrote it.
GenerateScriptFinally(c) ==
    /\ calls[c].op = "generateScript"
    /\ tempFile' = Null
    /\ calls' = [calls EXCEPT ![c] = NoCall]
    /\ UNCHANGED <<listings, scripts, videos, files, procs, resp, dealers>>

\* generateScript calls for the listings, started before earlier ones resume.
NextTemp ==
    \E c \in CallIds :
        \/ \E id \in ListingIds : GenerateScriptWrite(c, id)
        \/ GenerateScriptFinally(c)

SpecTemp == Init /\ [][NextTemp]_vars

\* C29: generateScript calls for different listings do not interfere: a call
\* does not overwrite the temp input file that holds the data of another
\* listing, a call removes no temp input file but the one with its own data,
\* and no temp input file remains once every call has finished.
C29_TempFileNotShared ==
    [][/\ \A c \in CallIds, id \in ListingIds :
              GenerateScriptWrite(c, id) => tempFile \in {Null, id}
       /\ \A c \in CallIds :
              GenerateScriptFinally(c) => tempFile \in {Null, calls[c].id}
       /\ (\A c \in CallIds : calls'[c] = NoCall) => tempFile' = Null]_vars

====
